---- MODULE Spec2Model ----
(***************************************************************************)
(* Digi_Lab (src/app.py): a Streamlit lab-results portal over SQLite and   *)
(* an uploads directory.  Each browser connection runs the script once per *)
(* interaction; several connections share the database and the uploads     *)
(* folder.  A handler is split only where it touches shared state (a       *)
(* lookup, a flush, a commit, a file write), so that the interleavings of  *)
(* concurrent connections are those of the program.                        *)
(*                                                                         *)
(* Strings that the code takes apart (file names) are sequences of         *)
(* one-character strings; all other strings are opaque.                    *)
(***************************************************************************)
EXTENDS Integers, Sequences, FiniteSets, TLC

VARIABLES
    users,          \* table user: sequence of rows, row i has id i
    patients,       \* table patient
    doctors,        \* table doctor
    labResults,     \* table lab_result
    notifications,  \* table notification
    blobs,          \* uploads folder: the files, each a stored name and a length
    session,        \* st.session_state of each connection
    pc,             \* position of each connection's running handler
    dbLock,         \* connection holding SQLite's write lock (0: nobody)
    puts,           \* the files stored so far, in order: for each the original
                    \* name, the second, the token and the stored name returned
    resp            \* what the last finished handler rendered, and for whom

vars == <<users, patients, doctors, labResults, notifications, blobs,
          session, pc, dbLock, puts, resp>>

tables == <<users, patients, doctors, labResults, notifications>>

(***************************************************************************)
(* Bounds of the model.                                                    *)
(***************************************************************************)
MaxUsers == 4      \* registrations admitted by the registration specification
MaxUploads == 2    \* upload submissions that reach the file store

Conns == {1, 2}

(***************************************************************************)
(* Configuration (src/app.py 34-35).                                       *)
(***************************************************************************)
MAX_CONTENT_LENGTH == 16 * 1024 * 1024

ALLOWED_EXTENSIONS ==
    { <<"p","d","f">>, <<"p","n","g">>, <<"j","p","g">>, <<"j","p","e","g">>,
      <<"t","x","t">>, <<"d","o","c">>, <<"d","o","c","x">> }

(***************************************************************************)
(* String helpers: str.lower, str.rsplit('.', 1), str.replace.             *)
(***************************************************************************)
Upper == <<"A","B","C","D","E","F","G","H","I","J","K","L","M",
           "N","O","P","Q","R","S","T","U","V","W","X","Y","Z">>
Lower == <<"a","b","c","d","e","f","g","h","i","j","k","l","m",
           "n","o","p","q","r","s","t","u","v","w","x","y","z">>

LowerChar(ch) ==
    IF \E i \in DOMAIN Upper : Upper[i] = ch
    THEN Lower[CHOOSE i \in DOMAIN Upper : Upper[i] = ch]
    ELSE ch

lower(s) == [i \in DOMAIN s |-> LowerChar(s[i])]

HasDot(s) == \E i \in DOMAIN s : s[i] = "."

\* filename.rsplit('.', 1)[1]: what follows the last dot
AfterLastDot(s) ==
    LET last == CHOOSE i \in DOMAIN s :
                    s[i] = "." /\ \A j \in DOMAIN s : s[j] = "." => j <= i
    IN  SubSeq(s, last + 1, Len(s))

\* the check made on what follows the first dot
allowed_file_first_dot(filename) ==
    IF ~HasDot(filename) THEN FALSE
    ELSE LET first == CHOOSE i \in DOMAIN filename :
                          filename[i] = "." /\ \A j \in DOMAIN filename :
                                                  filename[j] = "." => i <= j
             rest == SubSeq(filename, first + 1, Len(filename))
             stop == IF HasDot(rest)
                     THEN (CHOOSE i \in DOMAIN rest :
                              rest[i] = "." /\ \A j \in DOMAIN rest :
                                                 rest[j] = "." => i <= j) - 1
                     ELSE Len(rest)
         IN  lower(SubSeq(rest, 1, stop)) \in ALLOWED_EXTENSIONS

allowed_file(filename) ==
    IF ~HasDot(filename) THEN FALSE
    ELSE lower(AfterLastDot(filename)) \in ALLOWED_EXTENSIONS

secure_filename(filename) ==
    [i \in DOMAIN filename |->
        IF filename[i] \in {"/", "\\", " "} THEN "_" ELSE filename[i]]

\* the name made without the token
unique_filename_no_token(filename, ts, salt) ==
    <<ts, "_">> \o secure_filename(filename)

\* f"{ts}_{salt}_{secure_filename(filename)}"
unique_filename(filename, ts, salt) ==
    <<ts, "_", salt, "_">> \o secure_filename(filename)

(***************************************************************************)
(* Passwords (User.set_password, User.check_password).  The hash is an     *)
(* opaque one-way value: equal exactly when the passwords are equal.       *)
(***************************************************************************)
NoHash == <<>>

generate_password_hash(password) == <<"pbkdf2", password>>

check_password_hash(pwhash, password) == pwhash = generate_password_hash(password)

check_password(user, password) ==
    IF user.password_hash = NoHash THEN FALSE
    ELSE check_password_hash(user.password_hash, password)

(***************************************************************************)
(* Storage queries.  A query that finds nothing returns id 0.              *)
(***************************************************************************)
First(S) == IF S = {} THEN 0 ELSE CHOOSE i \in S : \A j \in S : i <= j

get_user_by_username(username) ==
    First({i \in DOMAIN users : users[i].username = username})

get_user_by_email(email) ==
    First({i \in DOMAIN users : users[i].email = email})

get_doctor_by_license(lic) ==
    First({i \in DOMAIN doctors : doctors[i].license_number = lic})

\* db.query(Patient).filter(Patient.user_id == uid).first()
patient_of_user(uid) ==
    First({i \in DOMAIN patients : patients[i].user_id = uid})

(***************************************************************************)
(* Session (login_user_in_session, logout_user_from_session, current_user) *)
(* and the sidebar menu.                                                   *)
(***************************************************************************)
NoSession == [user_id |-> 0, username |-> "", user_type |-> ""]

login_user_in_session(uid) ==
    [user_id |-> uid, username |-> users[uid].username,
     user_type |-> users[uid].user_type]

logout_user_from_session == NoSession

current_user(c) == session[c].user_id

menu(c) ==
    IF session[c].user_type = "doctor" THEN {"Home", "Dashboard", "Logout"}
    ELSE IF session[c].user_type = "patient" THEN {"Home", "Dashboard", "Logout"}
    ELSE IF session[c].user_type = "lab_tech"
         THEN {"Home", "Upload Result", "Dashboard", "Logout"}
    ELSE {"Home", "Register", "Login", "Dashboard", "Upload Result", "Logout"}

Idle == [step |-> "idle", form |-> <<>>, id |-> 0, saved |-> <<>>]

\* conn: the connection whose page it is; kind: the message or page shown;
\* arg: the name the page shows; rows: the ids of the LabResults listed
Render(c, kind, arg, rows) == [conn |-> c, kind |-> kind, arg |-> arg, rows |-> rows]

NoResp == Render(0, "none", "", {})

(***************************************************************************)
(* Register branch (src/app.py 233-310).                                   *)
(*                                                                         *)
(* The form's inputs.  The date and gender widgets always hold a value;    *)
(* every text input may be left empty.                                     *)
(***************************************************************************)
RegForm(role, username, email, password, phone, first, last, spec, lic) ==
    [role |-> role, username |-> username, email |-> email,
     password |-> password, phone |-> phone,
     first_name |-> first, last_name |-> last,
     date_of_birth |-> "1990-01-01", gender |-> "other",
     specialization |-> spec, license_number |-> lic]

F_carol == RegForm("lab_tech", "carol", "c@x", "pw3", "", "Ca", "C", "", "")
F_alice == RegForm("patient", "alice", "a@x", "pw1", "555", "Al", "A", "", "")
F_bob   == RegForm("patient", "bob", "b@x", "pw2", "", "Bo", "B", "", "")
F_dave  == RegForm("doctor", "dave", "d@x", "pw4", "", "Da", "D", "gp", "L1")

RegForms ==
    { F_carol, F_alice, F_bob, F_dave,
      \* a second doctor with dave's license number
      RegForm("doctor", "erin", "e@x", "pw5", "", "Er", "E", "ent", "L1"),
      \* alice's username, another email
      RegForm("lab_tech", "alice", "z@x", "pw6", "", "Zo", "Z", "", ""),
      \* alice's email, another username
      RegForm("patient", "frank", "a@x", "pw7", "", "Fr", "F", "", ""),
      \* username, email or password left empty
      RegForm("patient", "", "g@x", "pw8", "", "Gi", "G", "", ""),
      RegForm("doctor", "hal", "", "pw8", "", "Ha", "H", "gp", "L2"),
      RegForm("lab_tech", "ian", "i@x", "", "", "Ia", "I", "", ""),
      \* role-specific fields left empty
      RegForm("patient", "gail", "g@x", "pw8", "", "", "", "", ""),
      RegForm("doctor", "hal", "h@x", "pw8", "", "Ha", "H", "", "") }

\* User(username=..., email=..., user_type=role, phone=phone); set_password
UserRow(f) ==
    [username |-> f.username, email |-> f.email,
     password_hash |-> generate_password_hash(f.password),
     user_type |-> f.role, phone |-> f.phone]

\* lines 284-292, with user.id read before db.flush() has assigned it
PatientRow_before_flush(f, uid) ==
    [user_id |-> 0, first_name |-> f.first_name, last_name |-> f.last_name,
     date_of_birth |-> f.date_of_birth, gender |-> f.gender]

PatientRow(f, uid) ==
    [user_id |-> uid, first_name |-> f.first_name, last_name |-> f.last_name,
     date_of_birth |-> f.date_of_birth, gender |-> f.gender]

DoctorRow(f, uid) ==
    [user_id |-> uid, first_name |-> f.first_name, last_name |-> f.last_name,
     specialization |-> f.specialization, license_number |-> f.license_number]

\* the check made with the columns declared without unique=True
UserUniqueOk_undeclared(row) == TRUE

\* UNIQUE constraints of table user (Column(..., unique=True)), checked by
\* the INSERT that db.flush() emits
UserUniqueOk(row) ==
    /\ \A i \in DOMAIN users : users[i].username # row.username
    /\ \A i \in DOMAIN users : users[i].email # row.email

\* UNIQUE constraint of doctor.license_number
DoctorUniqueOk(row) ==
    \A i \in DOMAIN doctors : doctors[i].license_number # row.license_number

\* db.rollback() (line 309): the rows flushed by the open transaction are
\* discarded; the table is as it was committed
db_rollback_keeps_flushed(row) == Append(users, row)

db_rollback(row) == users

\* lines 265-276: required fields, then the three lookups
RegisterCheck(f) ==
    IF f.username = "" \/ f.email = "" \/ f.password = "" THEN "required"
    ELSE IF get_user_by_username(f.username) # 0 THEN "dup_username"
    ELSE IF get_user_by_email(f.email) # 0 THEN "dup_email"
    ELSE IF f.role = "doctor" /\ get_doctor_by_license(f.license_number) # 0
         THEN "dup_license"
    ELSE "ok"

InFlight == {d \in Conns : pc[d].step # "idle"}

\* The form is submitted: validation and lookups, up to the try block.
RegisterSubmit(c, f) ==
    /\ pc[c].step = "idle"
    /\ "Register" \in menu(c)
    /\ Len(users) + Cardinality(InFlight) < MaxUsers
    /\ IF RegisterCheck(f) = "ok"
       THEN /\ pc' = [pc EXCEPT ![c] = [Idle EXCEPT !.step = "reg_checked", !.form = f]]
            /\ UNCHANGED resp
       ELSE /\ resp' = Render(c, RegisterCheck(f), f.username, {})
            /\ UNCHANGED pc
    /\ UNCHANGED <<tables, blobs, session, dbLock, puts>>

\* lines 278-281: db.add(user); db.flush().  The INSERT takes the write lock
\* and checks the UNIQUE constraints; an IntegrityError goes to the handler
\* of lines 308-310, which rolls back.
RegisterFlush(c) ==
    /\ pc[c].step = "reg_checked"
    /\ dbLock = 0
    /\ IF UserUniqueOk(UserRow(pc[c].form))
       THEN /\ dbLock' = c
            /\ pc' = [pc EXCEPT ![c] = [@ EXCEPT !.step = "reg_flushed",
                                                  !.id = Len(users) + 1]]
            /\ UNCHANGED resp
       ELSE /\ pc' = [pc EXCEPT ![c] = Idle]
            /\ resp' = Render(c, "reg_error_unique_user", pc[c].form.username, {})
            /\ UNCHANGED dbLock
    /\ UNCHANGED <<tables, blobs, session, puts>>

\* db.flush() while another connection holds the write lock past the busy
\* timeout: OperationalError (database is locked), handled by lines 308-310.
RegisterBusy(c) ==
    /\ pc[c].step = "reg_checked"
    /\ dbLock \notin {0, c}
    /\ pc' = [pc EXCEPT ![c] = Idle]
    /\ resp' = Render(c, "reg_error_locked", pc[c].form.username, {})
    /\ UNCHANGED <<tables, blobs, session, dbLock, puts>>

\* The messages st.error shows for a failed registration: the three lookups
\* (lines 271-275) and the exception texts of line 310.
RegDuplicateKinds ==
    {"dup_username", "dup_email", "dup_license",
     "reg_error_unique_user", "reg_error_unique_license"}

\* lines 283-310: the profile is added and the transaction committed; when
\* the profile's INSERT fails, db.rollback() discards the flushed User too.
RegisterCommit(c) ==
    LET f == pc[c].form
        uid == pc[c].id
    IN  /\ pc[c].step = "reg_flushed"
        /\ dbLock = c
        /\ IF f.role = "doctor" /\ ~DoctorUniqueOk(DoctorRow(f, uid))
           THEN /\ resp' = Render(c, "reg_error_unique_license", pc[c].form.username, {})
                /\ users' = db_rollback(UserRow(f))
                /\ UNCHANGED <<patients, doctors>>
           ELSE /\ users' = Append(users, UserRow(f))
                /\ patients' = IF f.role = "patient"
                               THEN Append(patients, PatientRow(f, uid))
                               ELSE patients
                /\ doctors' = IF f.role = "doctor"
                              THEN Append(doctors, DoctorRow(f, uid))
                              ELSE doctors
                /\ resp' = Render(c, "reg_success", pc[c].form.username, {})
        /\ dbLock' = 0
        /\ pc' = [pc EXCEPT ![c] = Idle]
        /\ UNCHANGED <<labResults, notifications, blobs, session, puts>>

(***************************************************************************)
(* The registration specification: an empty database, and connections      *)
(* that register concurrently.                                             *)
(***************************************************************************)
InitReg ==
    /\ users = <<>> /\ patients = <<>> /\ doctors = <<>>
    /\ labResults = <<>> /\ notifications = <<>>
    /\ blobs = {}
    /\ session = [c \in Conns |-> NoSession]
    /\ pc = [c \in Conns |-> Idle]
    /\ dbLock = 0
    /\ puts = <<>>
    /\ resp = NoResp

NextReg ==
    \E c \in Conns :
        \/ \E f \in RegForms : RegisterSubmit(c, f)
        \/ RegisterFlush(c)
        \/ RegisterBusy(c)
        \/ RegisterCommit(c)

SpecReg == InitReg /\ [][NextReg]_vars

(***************************************************************************)
(* Claims about registration, checked under SpecReg.                       *)
(***************************************************************************)

\* C5: a registration that fails because the username, the email or the
\* license number is taken changes no User, Patient or Doctor row: the step
\* that renders the failure leaves the three tables as they were.
C5_FailedRegistrationChangesNothing ==
    [][resp'.kind \in RegDuplicateKinds => UNCHANGED <<users, patients, doctors>>]_vars

\* C5 witness: a doctor's registration passed the lookups, flushed its User
\* row and was then refused on the license number; no User row is left.
C5_Witness ==
    /\ resp.kind = "reg_error_unique_license"
    /\ \E i \in DOMAIN doctors : doctors[i].license_number = "L1"
    /\ Cardinality({i \in DOMAIN users : users[i].user_type = "doctor"}) = Len(doctors)

\* C6: no two User rows share a username, no two share an email, and no two
\* Doctor rows share a license number.
C6_UniqueKeys ==
    /\ \A i, j \in DOMAIN users :
          i # j => /\ users[i].username # users[j].username
                   /\ users[i].email # users[j].email
    /\ \A i, j \in DOMAIN doctors :
          i # j => doctors[i].license_number # doctors[j].license_number

\* C6 witness: two concurrent registrations passed the lookups with the same
\* username or email; one is committed and the other was refused by the
\* UNIQUE constraint at its flush.
C6_Witness ==
    /\ resp.kind = "reg_error_unique_user"
    /\ Len(users) >= 1

\* C8: every registered profile has its role's required fields: no Patient
\* row without first and last name, no Doctor row without first and last
\* name, specialization and license number.
C8_RequiredFieldsPresent ==
    /\ \A i \in DOMAIN users :
          users[i].username # "" /\ users[i].email # ""
    /\ \A i \in DOMAIN patients :
          patients[i].first_name # "" /\ patients[i].last_name # ""
    /\ \A i \in DOMAIN doctors :
          /\ doctors[i].first_name # "" /\ doctors[i].last_name # ""
          /\ doctors[i].specialization # "" /\ doctors[i].license_number # ""

\* C11: every Patient row and every Doctor row refers to a User row of role
\* patient respectively doctor; a patient user has exactly one Patient row
\* and no Doctor row, a doctor user exactly one Doctor row and no Patient
\* row, and a lab_tech user neither.
ProfilesOf(table, uid) == {i \in DOMAIN table : table[i].user_id = uid}

C11_ProfilesMatchRoles ==
    /\ \A i \in DOMAIN patients :
          /\ patients[i].user_id \in DOMAIN users
          /\ users[patients[i].user_id].user_type = "patient"
    /\ \A i \in DOMAIN doctors :
          /\ doctors[i].user_id \in DOMAIN users
          /\ users[doctors[i].user_id].user_type = "doctor"
    /\ \A u \in DOMAIN users :
          /\ Cardinality(ProfilesOf(patients, u)) =
                (IF users[u].user_type = "patient" THEN 1 ELSE 0)
          /\ Cardinality(ProfilesOf(doctors, u)) =
                (IF users[u].user_type = "doctor" THEN 1 ELSE 0)

\* C11 witness: a patient, a doctor and a lab technician are registered, and
\* a doctor's registration was refused at its commit after its User row had
\* been flushed.
C11_Witness ==
    /\ {users[u].user_type : u \in DOMAIN users} = {"patient", "doctor", "lab_tech"}
    /\ resp.kind = "reg_error_unique_license"

(***************************************************************************)
(* The portal: login, logout, dashboard and upload, over a database in     *)
(* which a lab technician, two patients (one with a phone number, one      *)
(* without) and a doctor have registered, in this order.                   *)
(***************************************************************************)
SeedForms == <<F_carol, F_alice, F_bob, F_dave>>

SeedUsers == [i \in DOMAIN SeedForms |-> UserRow(SeedForms[i])]

SeedPatients == <<PatientRow(F_alice, 2), PatientRow(F_bob, 3)>>

SeedDoctors == <<DoctorRow(F_dave, 4)>>

\* the registrations of SpecReg reach this database
SeedRegistered ==
    users = SeedUsers /\ patients = SeedPatients /\ doctors = SeedDoctors

(***************************************************************************)
(* HOME (lines 220-230).                                                   *)
(***************************************************************************)
Home(c) ==
    /\ pc[c].step = "idle"
    /\ "Home" \in menu(c)
    /\ resp' = Render(c, "home", "", {})
    /\ UNCHANGED <<tables, blobs, session, pc, dbLock, puts>>

(***************************************************************************)
(* LOGIN (lines 313-329) and LOGOUT (lines 332-340).                       *)
(***************************************************************************)
\* the login attempts tried: each account with its password, an account with
\* a wrong password, and a username that no account has
LoginAttempts ==
    { <<"carol", "pw3">>, <<"alice", "pw1">>, <<"bob", "pw2">>, <<"dave", "pw4">>,
      <<"alice", "wrong">>, <<"nobody", "pw1">> }

\* line 329, for a login refused with lookup result uid (0: no such user)
LoginFailure_telling(uid) == IF uid = 0 THEN "login_unknown_user" ELSE "login_wrong_password"

LoginFailure(uid) == "login_failed"

LoginSubmit(c, username, password) ==
    LET user == get_user_by_username(username)
    IN  /\ pc[c].step = "idle"
        /\ "Login" \in menu(c)
        /\ IF user # 0 /\ check_password(users[user], password)
           THEN /\ session' = [session EXCEPT ![c] = login_user_in_session(user)]
                /\ resp' = Render(c, "login_success", users[user].username, {})
           ELSE /\ resp' = Render(c, LoginFailure(user), username, {})
                /\ UNCHANGED session
        /\ UNCHANGED <<tables, blobs, pc, dbLock, puts>>

Logout(c) ==
    /\ pc[c].step = "idle"
    /\ "Logout" \in menu(c)
    /\ IF session[c].user_id # 0
       THEN /\ session' = [session EXCEPT ![c] = logout_user_from_session]
            /\ resp' = Render(c, "logged_out", "", {})
       ELSE /\ resp' = Render(c, "not_logged_in", "", {})
            /\ UNCHANGED session
    /\ UNCHANGED <<tables, blobs, pc, dbLock, puts>>

(***************************************************************************)
(* DASHBOARD (lines 403-523).                                              *)
(***************************************************************************)
\* line 425, with the filter dropped
patient_results_unfiltered(patient) == DOMAIN labResults

\* line 425: the LabResults of one Patient
patient_results(patient) ==
    {i \in DOMAIN labResults : labResults[i].patient_id = patient}

Dashboard(c) ==
    LET uid == current_user(c)
        user == users[uid]
        patient == patient_of_user(uid)
    IN  /\ pc[c].step = "idle"
        /\ "Dashboard" \in menu(c)
        /\ IF session[c].user_id = 0
           THEN resp' = Render(c, "dashboard_denied", "", {})
           ELSE IF user.user_type = "patient"
           THEN IF patient = 0
                THEN resp' = Render(c, "dashboard_no_profile", user.username, {})
                ELSE resp' = Render(c, "dashboard_patient", user.username,
                                    patient_results(patient))
           ELSE IF user.user_type = "doctor"
           THEN resp' = Render(c, "dashboard_doctor", user.username, DOMAIN labResults)
           ELSE IF user.user_type = "lab_tech"
           THEN resp' = Render(c, "dashboard_lab_tech", user.username,
                               {i \in DOMAIN labResults : labResults[i].status = "pending"}
                               \cup
                               {i \in DOMAIN labResults : labResults[i].status = "completed"})
           ELSE resp' = Render(c, "dashboard_empty", user.username, {})
        /\ UNCHANGED <<tables, blobs, session, pc, dbLock, puts>>

(***************************************************************************)
(* UPLOAD RESULT (lines 343-400) and the file store (lines 158-175).       *)
(***************************************************************************)
NoFile == [present |-> FALSE, name |-> <<>>, size |-> 0]

File(name, size) == [present |-> TRUE, name |-> name, size |-> size]

N_report_pdf == <<"r", ".", "p", "d", "f">>
N_my_scan_PNG == <<"m", " ", "s", ".", "P", "N", "G">>
N_virus_exe == <<"v", ".", "e", "x", "e">>
N_report_pdf_exe == <<"r", ".", "p", "d", "f", ".", "e", "x", "e">>
N_noext == <<"p", "d", "f">>


\* datetime.utcnow() of line 148, in whole seconds.  The clock is read
\* nowhere else, and of two stored names it only tells whether they were made
\* in the same second; the uploads of a run all fall in one second, where the
\* token alone separates the names of two uploads of the same file.
utcnow == 0

\* secrets.token_hex(6)
Salts == {"a1", "b2"}

\* save_uploaded_file up to its write: the ValueError raised, or "ok"
save_check(file) ==
    IF ~file.present THEN "No file provided."
    ELSE IF ~allowed_file(file.name) THEN "File type not allowed."
    ELSE IF file.size > MAX_CONTENT_LENGTH THEN "File too large."
    ELSE "ok"

\* lines 171-175 with the write left out: the name is returned, no file made
write_file_skipped(fname, size) == blobs

\* open(path, "wb").write(data): creates the file or replaces its content
write_file(fname, size) ==
    {b \in blobs : b.name # fname} \cup {[name |-> fname, size |-> size]}

\* line 344, refusing only a session of another role
UploadDenied_other_role_only(c) ==
    session[c].user_id # 0 /\ session[c].user_type # "lab_tech"

\* line 344, with the check left out
UploadDenied_never(c) == FALSE

\* line 344
UploadDenied(c) ==
    session[c].user_id = 0 \/ session[c].user_type # "lab_tech"

\* line 387, always the account email
recipient_email_only(patient) == users[patients[patient].user_id].email

\* line 387
recipient_of(patient) ==
    LET user == users[patients[patient].user_id]
    IN  IF user.phone # "" THEN user.phone ELSE user.email

LabResultRow(c, f, saved_name) ==
    [patient_id |-> f.patient_id, test_type |-> f.test_type,
     status |-> "completed", file_path |-> saved_name,
     lab_technician |-> session[c].username]

NotificationRow(id, recipient) ==
    [lab_result_id |-> id, notification_type |-> "portal",
     status |-> "sent", recipient |-> recipient]

UploadForm(patient_id, test_type, file) ==
    [patient_id |-> patient_id, test_type |-> test_type, file |-> file]

\* the forms submitted: a file of exactly 16 MiB for either patient, and
\* forms with the test type empty, no file, a file too large by one byte and
\* by 1 MiB, an extension not allowed, an allowed extension that is not the
\* last one, and a name without a dot
UploadForms ==
    { UploadForm(1, "CBC", File(N_my_scan_PNG, MAX_CONTENT_LENGTH)),
      UploadForm(2, "CBC", File(N_my_scan_PNG, MAX_CONTENT_LENGTH)),
      UploadForm(1, "", File(N_my_scan_PNG, MAX_CONTENT_LENGTH)),
      UploadForm(2, "", NoFile),
      UploadForm(1, "CBC", NoFile),
      UploadForm(1, "CBC", File(N_report_pdf, MAX_CONTENT_LENGTH + 1)),
      UploadForm(2, "CBC", File(N_report_pdf, 17 * 1024 * 1024)),
      UploadForm(1, "CBC", File(N_virus_exe, 120)),
      UploadForm(2, "CBC", File(N_report_pdf_exe, 120)),
      UploadForm(1, "CBC", File(N_noext, 120)) }

\* lines 343-369: access check, form, validation, and the file written
UploadSubmit(c, f) ==
    /\ pc[c].step = "idle"
    /\ "Upload Result" \in menu(c)
    /\ Len(puts) < MaxUploads
    /\ f.patient_id \in DOMAIN patients     \* the selectbox lists the patients
    /\ IF UploadDenied(c)
       THEN /\ resp' = Render(c, "upload_denied", "", {})
            /\ UNCHANGED <<blobs, pc, puts>>
       ELSE IF f.test_type = ""
       THEN /\ resp' = Render(c, "Test type is required.", "", {})
            /\ UNCHANGED <<blobs, pc, puts>>
       ELSE IF ~f.file.present
       THEN /\ resp' = Render(c, "Please select a result file to upload.", "", {})
            /\ UNCHANGED <<blobs, pc, puts>>
       ELSE IF save_check(f.file) # "ok"
       THEN /\ resp' = Render(c, save_check(f.file), "", {})
            /\ UNCHANGED <<blobs, pc, puts>>
       ELSE \E salt \in Salts :
               LET fname == unique_filename(f.file.name, utcnow, salt)
               IN  /\ blobs' = write_file(fname, f.file.size)
                   /\ pc' = [pc EXCEPT ![c] = [step |-> "up_saved", form |-> f,
                                               id |-> 0, saved |-> fname]]
                   /\ puts' = Append(puts, [original |-> f.file.name,
                                            ts |-> utcnow, token |-> salt,
                                            stored |-> fname])
                   /\ UNCHANGED resp
    /\ UNCHANGED <<tables, session, dbLock>>

\* lines 370-381: the LabResult is added and committed
UploadInsert(c) ==
    /\ pc[c].step = "up_saved"
    /\ dbLock = 0
    /\ labResults' = Append(labResults, LabResultRow(c, pc[c].form, pc[c].saved))
    /\ pc' = [pc EXCEPT ![c] = [@ EXCEPT !.step = "up_inserted",
                                          !.id = Len(labResults) + 1]]
    /\ UNCHANGED <<users, patients, doctors, notifications, blobs, session,
                   dbLock, puts, resp>>

\* db.commit() of line 381 raises (the database stays locked by another
\* connection past the busy timeout, or cannot be written): lines 398-400
UploadInsertFails(c) ==
    /\ pc[c].step = "up_saved"
    /\ pc' = [pc EXCEPT ![c] = Idle]
    /\ resp' = Render(c, "upload_failed", "", {})
    /\ UNCHANGED <<tables, blobs, session, dbLock, puts>>

\* lines 385-397: the Notification is added and committed
UploadNotify(c) ==
    /\ pc[c].step = "up_inserted"
    /\ dbLock = 0
    /\ notifications' = Append(notifications,
           NotificationRow(pc[c].id, recipient_of(pc[c].form.patient_id)))
    /\ pc' = [pc EXCEPT ![c] = Idle]
    /\ resp' = Render(c, "upload_success", "", {})
    /\ UNCHANGED <<users, patients, doctors, labResults, blobs, session,
                   dbLock, puts>>

\* db.commit() of line 395 raises: lines 398-400 roll back the Notification;
\* the LabResult was committed at line 381
UploadNotifyFails(c) ==
    /\ pc[c].step = "up_inserted"
    /\ pc' = [pc EXCEPT ![c] = Idle]
    /\ resp' = Render(c, "upload_failed", "", {})
    /\ UNCHANGED <<tables, blobs, session, dbLock, puts>>

Init ==
    /\ users = SeedUsers /\ patients = SeedPatients /\ doctors = SeedDoctors
    /\ labResults = <<>> /\ notifications = <<>>
    /\ blobs = {}
    /\ session = [c \in Conns |-> NoSession]
    /\ pc = [c \in Conns |-> Idle]
    /\ dbLock = 0
    /\ puts = <<>>
    /\ resp = NoResp

Next ==
    \E c \in Conns :
        \/ Home(c)
        \/ \E a \in LoginAttempts : LoginSubmit(c, a[1], a[2])
        \/ Logout(c)
        \/ Dashboard(c)
        \/ \E f \in UploadForms : UploadSubmit(c, f)
        \/ UploadInsert(c)
        \/ UploadInsertFails(c)
        \/ UploadNotify(c)
        \/ UploadNotifyFails(c)

Spec == Init /\ [][Next]_vars

(***************************************************************************)
(* Claims about the portal, checked under Spec.                            *)
(***************************************************************************)
Unauthenticated(c) == session[c].user_id = 0

\* the step is one in which a handler of connection c starts: it renders
\* for c or moves c's handler on
Submitted(c) ==
    /\ pc[c].step = "idle"
    /\ resp'.conn = c \/ pc'[c] # pc[c]

\* C1: a LabResult exists if and only if its Notification exists: every
\* LabResult row has a Notification row and every Notification row refers to
\* a LabResult row.
C1_ResultAndNotificationTogether ==
    /\ \A i \in DOMAIN labResults :
          \E n \in DOMAIN notifications : notifications[n].lab_result_id = i
    /\ \A n \in DOMAIN notifications :
          notifications[n].lab_result_id \in DOMAIN labResults

\* C2: the LabResults the Dashboard lists for a patient user all belong to
\* the Patient profile linked to that user's own User id.
C2_PatientSeesOnlyOwnResults ==
    resp.kind = "dashboard_patient" =>
        LET uid == session[resp.conn].user_id
        IN  /\ uid \in DOMAIN users
            /\ users[uid].user_type = "patient"
            /\ \A i \in resp.rows :
                  /\ i \in DOMAIN labResults
                  /\ labResults[i].patient_id \in DOMAIN patients
                  /\ patients[labResults[i].patient_id].user_id = uid

\* C2 witness: a patient's dashboard lists a result of theirs while a result
\* of another patient is in the table.
C2_Witness ==
    /\ resp.kind = "dashboard_patient"
    /\ resp.rows # {}
    /\ resp.rows # DOMAIN labResults

\* C3: an upload submitted without a lab_tech session is denied whatever the
\* form holds and writes nothing; the file store and the two tables change
\* only in steps of a connection whose session has role lab_tech; and every
\* LabResult names a lab technician's account as its uploader.
C3_UploadOnlyByLabTech ==
    /\ [](\A i \in DOMAIN labResults :
            \E u \in DOMAIN users :
                /\ users[u].username = labResults[i].lab_technician
                /\ users[u].user_type = "lab_tech")
    /\ [][/\ \A c \in Conns :
                (session[c].user_type # "lab_tech" /\ Submitted(c)) =>
                    \A f \in UploadForms :
                        UploadSubmit(c, f) =>
                            /\ resp' = Render(c, "upload_denied", "", {})
                            /\ UNCHANGED <<tables, blobs, pc>>
          /\ (labResults' # labResults \/ notifications' # notifications
                \/ blobs' # blobs) =>
                \E c \in Conns : /\ session[c].user_type = "lab_tech"
                                 /\ session[c].user_id # 0
                                 /\ pc'[c] # pc[c]]_vars

\* C3 witness: an upload was denied while a lab technician's LabResult is in
\* the table.
C3_Witness ==
    /\ resp.kind = "upload_denied"
    /\ labResults # <<>>

\* C4: an upload with an empty test type, no file, a file whose extension is
\* not allowed or a file larger than 16 MiB is rejected in one step that
\* writes no LabResult, no Notification and no blob and starts no insert.
InvalidUpload(f) ==
    \/ f.test_type = ""
    \/ ~f.file.present
    \/ f.file.name \in {N_virus_exe, N_report_pdf_exe, N_noext}
    \/ f.file.size > 16 * 1024 * 1024

UploadRejections ==
    {"upload_denied", "Test type is required.",
     "Please select a result file to upload.",
     "File type not allowed.", "File too large."}

C4_RejectedUploadWritesNothing ==
    [][\A c \in Conns :
          Submitted(c) =>
              \A f \in {g \in UploadForms : InvalidUpload(g)} :
                  UploadSubmit(c, f) =>
                      /\ UNCHANGED <<tables, blobs, pc>>
                      /\ resp'.conn = c
                      /\ resp'.kind \in UploadRejections]_vars

\* C4 witness: a file of 16 MiB + 1 byte or more was rejected after an
\* earlier upload had stored a blob.
C4_Witness ==
    /\ resp.kind = "File too large."
    /\ blobs # {}

\* C7: the insert of a successful upload adds exactly one LabResult, with
\* status completed, the stored name, the acting username and the selected
\* patient; its last step adds exactly one Notification, the only one of
\* that LabResult, with type portal, status sent and the patient's account
\* phone as recipient when there is one, else the account email.
ExpectedRecipient(pid) ==
    LET account == users[patients[pid].user_id]
    IN  IF account.phone # "" THEN account.phone ELSE account.email

C7_SuccessfulUploadRows ==
    [][\A c \in Conns :
          /\ UploadInsert(c) =>
                /\ Len(labResults') = Len(labResults) + 1
                /\ pc'[c].id = Len(labResults')
                /\ \E d \in blobs : d.name = pc[c].saved
                /\ labResults'[pc'[c].id] =
                      [patient_id |-> pc[c].form.patient_id,
                       test_type |-> pc[c].form.test_type,
                       status |-> "completed",
                       file_path |-> pc[c].saved,
                       lab_technician |-> session[c].username]
          /\ (UploadNotify(c) /\ resp'.kind = "upload_success") =>
                /\ labResults' = labResults
                /\ Len(notifications') = Len(notifications) + 1
                /\ Cardinality({n \in DOMAIN notifications' :
                        notifications'[n].lab_result_id = pc[c].id}) = 1
                /\ notifications'[Len(notifications')] =
                      [lab_result_id |-> pc[c].id,
                       notification_type |-> "portal",
                       status |-> "sent",
                       recipient |-> ExpectedRecipient(pc[c].form.patient_id)]]_vars

\* C7 witness: two uploads succeeded, one for the patient with a phone
\* number and one for the patient without.
C7_Witness ==
    /\ resp.kind = "upload_success"
    /\ {notifications[n].recipient : n \in DOMAIN notifications} = {"555", "b@x"}

\* C9: a login that establishes no session renders the same failure whether
\* or not the username exists, and leaves every session as it was.
C9_LoginFailsTheSameWay ==
    [][\A c \in Conns, a \in LoginAttempts :
          (LoginSubmit(c, a[1], a[2]) /\ session'[c].user_id = 0) =>
              /\ resp' = Render(c, "login_failed", a[1], {})
              /\ session' = session]_vars

\* C9 witness: a login with an existing username and a wrong password failed.
C9_Witness ==
    /\ resp.kind = "login_failed"
    /\ get_user_by_username(resp.arg) # 0
    /\ session[resp.conn] = NoSession

\* C10 as stated: a connection without a session gets Home or an
\* access-denied state from every view.
C10_OnlyHomeWhenUnauthenticated ==
    [][\A c \in Conns :
          (Unauthenticated(c) /\ resp'.conn = c /\ resp' # resp) =>
              resp'.kind \in {"home", "dashboard_denied", "upload_denied"}]_vars

\* C10 as amended: without a session the Dashboard and Upload Result views
\* are denied, list nothing and write nothing; whatever such a connection is
\* shown is Home, the login outcome, the not-logged-in notice or a denial,
\* and lists no LabResult.
C10_UnauthenticatedGetsNoData ==
    [][\A c \in Conns : (Unauthenticated(c) /\ Submitted(c)) =>
          /\ Dashboard(c) => resp' = Render(c, "dashboard_denied", "", {})
          /\ \A f \in UploadForms :
                UploadSubmit(c, f) =>
                    /\ resp' = Render(c, "upload_denied", "", {})
                    /\ UNCHANGED <<tables, blobs, pc>>
          /\ (resp'.conn = c /\ resp' # resp) =>
                /\ resp'.rows = {}
                /\ resp'.kind \in {"home", "login_success", "login_failed",
                                   "not_logged_in", "dashboard_denied",
                                   "upload_denied"}
                /\ UNCHANGED <<tables, blobs>>]_vars

\* C10 witness: the Dashboard was denied to a connection without a session
\* while LabResults were in the table.
C10_Witness ==
    /\ resp.kind = "dashboard_denied"
    /\ Unauthenticated(resp.conn)
    /\ labResults # <<>>

StoredNames == {b.name : b \in blobs}

\* C12 as stated: no two uploads are assigned the same stored name, and no
\* put overwrites the blob of an earlier upload: the stored files are as
\* many as the uploads that reached the file store.
C12_StoredNamesNeverCollide ==
    /\ \A i, j \in DOMAIN puts : i # j => puts[i].stored # puts[j].stored
    /\ Cardinality(blobs) = Len(puts)

\* C12 as amended: two uploads are assigned the same stored name only if
\* they fall in the same second, have the same sanitized file name and drew
\* the same token; every upload's blob is under its stored name, and the
\* files are as many as the distinct stored names, so that a put replaces
\* the blob of an earlier upload only when the two names are equal.
C12_NamesCollideOnlyOnEqualToken ==
    /\ \A i, j \in DOMAIN puts :
          puts[i].stored = puts[j].stored =>
              /\ puts[i].ts = puts[j].ts
              /\ puts[i].token = puts[j].token
              /\ secure_filename(puts[i].original) = secure_filename(puts[j].original)
    /\ \A i \in DOMAIN puts : puts[i].stored \in StoredNames
    /\ Cardinality(blobs) = Cardinality({puts[i].stored : i \in DOMAIN puts})

\* C12 witness: two uploads of the same file in the same second drew
\* different tokens, and both blobs are in the file store.
C12_Witness ==
    /\ Len(puts) = 2
    /\ puts[1].original = puts[2].original
    /\ puts[1].ts = puts[2].ts
    /\ puts[1].token # puts[2].token
    /\ Cardinality(blobs) = 2

\* C13: every LabResult's file reference names a blob in the file store; the
\* blob is there before the row is inserted (a handler past the file save
\* holds the name of a stored blob, and an inserted row takes that name), and
\* no step removes a stored name.
C13_ResultsHaveBlobs ==
    /\ [](\A i \in DOMAIN labResults : labResults[i].file_path \in StoredNames)
    /\ [](\A c \in Conns :
            pc[c].step \in {"up_saved", "up_inserted"} => pc[c].saved \in StoredNames)
    /\ [][/\ StoredNames \subseteq StoredNames'
          /\ \A i \in DOMAIN labResults' \ DOMAIN labResults :
                labResults'[i].file_path \in StoredNames]_vars

\* C13 witness: an insert failed after its file was stored and left a blob
\* that no LabResult names, beside a LabResult whose blob is stored.
C13_Witness ==
    /\ resp.kind = "upload_failed"
    /\ \A c \in Conns : pc[c].step = "idle"
    /\ labResults # <<>>
    /\ \E b \in blobs : \A i \in DOMAIN labResults : labResults[i].file_path # b.name

====
